---- MODULE Spec2Model ----
(***************************************************************************)
(* Smart-Files-AI backend: the SQLite store (backend/services/             *)
(* vector_store.py), the indexing run (backend/main.py, backend/services/  *)
(* indexer.py) and the file organiser (backend/services/file_organiser.py).*)
(*                                                                         *)
(* Paths are sequences of names: Path(p) / n is Append(p, n) and           *)
(* Path(p).name is the last element.  SQL NULL / Python None is NULL.      *)
(* Row ids come from AUTOINCREMENT columns: the next id of a table is      *)
(* seq[table] + 1 and an id is never handed out twice.  A caller can only  *)
(* hold ids that the store has handed out before (1 .. seq[table]).        *)
(***************************************************************************)
EXTENDS Integers, Sequences, FiniteSets, TLC

VARIABLES
  folders,          \* table folders: rows [id, path, parent_id, level, file_count]
  files,            \* table files: rows [id, folder_id, file_path, run]
  chunks,           \* table document_chunks: rows [id, file_id, chunk_index, run]
  actions,          \* table organisation_actions
  seq,              \* sqlite_sequence: last AUTOINCREMENT id of every table
  disk_dirs,        \* directories that exist on disk
  disk_files,       \* files that exist on disk: [path, inode]
  indexing_status,  \* main.py global indexing_status
  tasks,            \* background tasks run_indexing, in order of add_task
  running,          \* the task that holds the event loop (0: the loop is free)
  response,         \* outcome of the last request handler / store call
  org               \* outcome of the last execute_organisation call

vars == <<folders, files, chunks, actions, seq, disk_dirs, disk_files,
          indexing_status, tasks, running, response, org>>

storeVars == <<folders, files, chunks, actions, seq>>
diskVars == <<disk_dirs, disk_files>>
indexVars == <<indexing_status, tasks, running>>

----------------------------------------------------------------------------
(* Bounds of the model *)

MaxFolderId == 3      \* folder ids handed out
MaxFileId == 2        \* file ids handed out
MaxChunkId == 1       \* chunk ids handed out
MaxActionId == 3      \* organisation_actions ids handed out
MaxTasks == 2         \* run_indexing tasks ever queued
MaxSearchChunks == 3  \* chunks in the store that is searched
MaxTextLen == 5       \* characters of a text that is split
MaxLoopLen == 6       \* characters of a text whose split is followed step by step
MaxChunkSize == 5     \* chunk_size of a split that is followed step by step
MaxNameWords == 2     \* words in the name of a classified file
MaxContentWords == 3  \* words in the content of a classified file
MaxAnalysed == 22     \* files of the folder that is analysed

(* Values of the model *)

NULL == 0

RootPath == <<"A">>
SubPath == <<"A", "Documents">>
FolderNames == {"Documents", "Other Files"}
FileNames == {"f1.txt", "f2.txt", "f3.txt"}

\* the folder paths and file paths that calls of the store are made with
FolderPaths == {RootPath, RootPath \o <<"Documents">>,
                RootPath \o <<"Documents", "Documents">>}
FilePaths == {RootPath \o <<"f1.txt">>, RootPath \o <<"Documents", "f1.txt">>}
ChunkIndexes == {0, 1}

----------------------------------------------------------------------------
(* The database: foreign keys and cascades *)

DB == [folders |-> folders, files |-> files, chunks |-> chunks,
       actions |-> actions, seq |-> seq]

Ids(rows) == {r.id : r \in rows}

ForeignKeysOff == FALSE

\* PRAGMA foreign_keys = ON, executed on the one connection of the store
ForeignKeys == TRUE

\* the rows of table folders reached from the ids S over parent_id
RECURSIVE CascadeClosure(_, _)
CascadeClosure(fs, S) ==
  LET T == S \cup {f.id : f \in {g \in fs : g.parent_id \in S}}
  IN IF T = S THEN S ELSE CascadeClosure(fs, T)

\* DELETE FROM folders WHERE id IN ids, with ON DELETE CASCADE from
\* folders to folders, files and organisation_actions and from files to
\* document_chunks
DeleteFolderRows(db, ids) ==
  IF ForeignKeys
  THEN LET gone == CascadeClosure(db.folders, ids)
           fgone == {f.id : f \in {g \in db.files : g.folder_id \in gone}}
       IN [db EXCEPT !.folders = {f \in @ : f.id \notin gone},
                     !.files = {f \in @ : f.folder_id \notin gone},
                     !.chunks = {c \in @ : c.file_id \notin fgone},
                     !.actions = {a \in @ : a.folder_id \notin gone}]
  ELSE [db EXCEPT !.folders = {f \in @ : f.id \notin ids}]

\* DELETE FROM files WHERE id IN ids, with ON DELETE CASCADE to document_chunks
DeleteFileRows(db, ids) ==
  IF ForeignKeys
  THEN [db EXCEPT !.files = {f \in @ : f.id \notin ids},
                  !.chunks = {c \in @ : c.file_id \notin ids}]
  ELSE [db EXCEPT !.files = {f \in @ : f.id \notin ids}]

----------------------------------------------------------------------------
(* VectorStore: writes.  Every operation is a function of the database    *)
(* that yields [ok, id, db]; ok = FALSE is a raised sqlite3.IntegrityError *)
(* whose statement has been rolled back.                                   *)

AddFolderLevelOfParent(db, parent_id) ==
  IF parent_id # NULL /\ parent_id \in Ids(db.folders)
  THEN (CHOOSE f \in db.folders : f.id = parent_id).level
  ELSE 0

\* add_folder: level = parent['level'] + 1 when the parent row is found
AddFolderLevel(db, parent_id) ==
  IF parent_id # NULL /\ parent_id \in Ids(db.folders)
  THEN (CHOOSE f \in db.folders : f.id = parent_id).level + 1
  ELSE 0

NoConflictingFolders(db, folder_path) == {}

\* path TEXT UNIQUE: the rows INSERT OR REPLACE has to delete first
ConflictingFolders(db, folder_path) ==
  {f.id : f \in {g \in db.folders : g.path = folder_path}}

add_folder(db, folder_path, parent_id) ==
  LET level == AddFolderLevel(db, parent_id)
      d1 == DeleteFolderRows(db, ConflictingFolders(db, folder_path))
      id == db.seq.folders + 1
      row == [id |-> id, path |-> folder_path, parent_id |-> parent_id,
              level |-> level, file_count |-> 0]
      fk_ok == \/ ~ForeignKeys
               \/ parent_id = NULL
               \/ parent_id \in Ids(d1.folders)
  IN IF fk_ok
     THEN [ok |-> TRUE, id |-> id,
           db |-> [d1 EXCEPT !.folders = @ \cup {row}, !.seq.folders = id]]
     ELSE [ok |-> FALSE, id |-> NULL, db |-> db]

add_subfolder(db, parent_id, folder_path) == add_folder(db, folder_path, parent_id)

\* a variant that updates the row of the path in place (ON CONFLICT DO UPDATE)
add_file_in_place(db, folder_id, file_path, run) ==
  LET old == {g \in db.files : g.file_path = file_path}
      id == IF old = {} THEN db.seq.files + 1 ELSE (CHOOSE g \in old : TRUE).id
      row == [id |-> id, folder_id |-> folder_id, file_path |-> file_path,
              run |-> run]
      fk_ok == \/ ~ForeignKeys
               \/ folder_id = NULL
               \/ folder_id \in Ids(db.folders)
  IN IF fk_ok
     THEN [ok |-> TRUE, id |-> id,
           db |-> [db EXCEPT !.files = (@ \ old) \cup {row},
                             !.seq.files = IF old = {} THEN id ELSE @]]
     ELSE [ok |-> FALSE, id |-> NULL, db |-> db]

add_file(db, folder_id, file_path, run) ==
  LET old == {f.id : f \in {g \in db.files : g.file_path = file_path}}
      d1 == DeleteFileRows(db, old)
      id == db.seq.files + 1
      row == [id |-> id, folder_id |-> folder_id, file_path |-> file_path,
              run |-> run]
      fk_ok == \/ ~ForeignKeys
               \/ folder_id = NULL
               \/ folder_id \in Ids(d1.folders)
  IN IF fk_ok
     THEN [ok |-> TRUE, id |-> id,
           db |-> [d1 EXCEPT !.files = @ \cup {row}, !.seq.files = id]]
     ELSE [ok |-> FALSE, id |-> NULL, db |-> db]

add_document_chunk(db, file_id, chunk_index, run) ==
  LET id == db.seq.chunks + 1
      row == [id |-> id, file_id |-> file_id, chunk_index |-> chunk_index,
              run |-> run]
      fk_ok == \/ ~ForeignKeys
               \/ file_id = NULL
               \/ file_id \in Ids(db.files)
  IN IF fk_ok
     THEN [ok |-> TRUE, id |-> id,
           db |-> [db EXCEPT !.chunks = @ \cup {row}, !.seq.chunks = id]]
     ELSE [ok |-> FALSE, id |-> NULL, db |-> db]

\* UPDATE files SET file_path = ?, file_name = ? WHERE id = ?
update_file_location(db, file_id, new_path) ==
  LET hit == {f \in db.files : f.id = file_id}
      clash == {f \in db.files : f.file_path = new_path /\ f.id # file_id}
  IN IF hit # {} /\ clash # {}
     THEN [ok |-> FALSE, id |-> NULL, db |-> db]
     ELSE [ok |-> TRUE, id |-> NULL,
           db |-> [db EXCEPT !.files =
                     (@ \ hit) \cup {[f EXCEPT !.file_path = new_path] : f \in hit}]]

\* UPDATE files SET file_path = ?, file_name = ? WHERE file_path = ?
update_file_location_by_path(db, old_path, new_path) ==
  LET hit == {f \in db.files : f.file_path = old_path}
      clash == {f \in db.files : f.file_path = new_path /\ f \notin hit}
  IN IF hit # {} /\ clash # {}
     THEN [ok |-> FALSE, id |-> NULL, db |-> db]
     ELSE [ok |-> TRUE, id |-> NULL,
           db |-> [db EXCEPT !.files =
                     (@ \ hit) \cup {[f EXCEPT !.file_path = new_path] : f \in hit}]]

remove_folder(db, folder_id) ==
  IF folder_id \in Ids(db.folders)
  THEN DeleteFolderRows(db, {folder_id})
  ELSE db

\* DELETE FROM every table, children first; sqlite_sequence is kept
clear_all(db) ==
  [db EXCEPT !.actions = {}, !.chunks = {}, !.files = {}, !.folders = {}]

----------------------------------------------------------------------------
(* VectorStore: reads *)

get_folder_by_id(db, folder_id) == {f \in db.folders : f.id = folder_id}

folder_tree_one_level(db, S) ==
  S \cup {f.id : f \in {g \in db.folders : g.parent_id \in S}}

\* WITH RECURSIVE folder_tree: the start row, then every row whose parent_id
\* is in the tree
RECURSIVE folder_tree(_, _)
folder_tree(db, S) ==
  LET T == S \cup {f.id : f \in {g \in db.folders : g.parent_id \in S}}
  IN IF T = S THEN S ELSE folder_tree(db, T)

get_files_in_folder_recursive(db, folder_id) ==
  {f \in db.files :
     f.folder_id \in folder_tree(db, Ids(get_folder_by_id(db, folder_id)))}

\* get_indexed_folders: folder_map[id]['children']
FolderMapChildren(db, folder_id) ==
  {f.id : f \in {g \in db.folders : g.parent_id # NULL /\ g.parent_id = folder_id}}

\* SELECT folder_id, COUNT(*) FROM files GROUP BY folder_id; .get(folder_id, 0)
FileCounts(db, folder_id) == Cardinality({f \in db.files : f.folder_id = folder_id})

RECURSIVE SumOver(_, _, _)
SumOver(Op(_, _), db, S) ==
  IF S = {} THEN 0
  ELSE LET x == CHOOSE y \in S : TRUE
       IN Op(db, x) + SumOver(Op, db, S \ {x})

get_recursive_file_count_shallow(db, folder_id) ==
  FileCounts(db, folder_id) + SumOver(FileCounts, db, FolderMapChildren(db, folder_id))

RECURSIVE get_recursive_file_count(_, _)
get_recursive_file_count(db, folder_id) ==
  FileCounts(db, folder_id)
    + SumOver(get_recursive_file_count, db, FolderMapChildren(db, folder_id))

\* get_indexed_folders: the listing of the root folders, and the UPDATE of
\* their file_count column
get_indexed_folders(db) ==
  [db EXCEPT !.folders =
     {IF f.parent_id = NULL
      THEN [f EXCEPT !.file_count = get_recursive_file_count(db, f.id)]
      ELSE f : f \in @}]

----------------------------------------------------------------------------
(* Initial state: an empty database, no run, and on disk a folder A with a  *)
(* file and a sub-folder that holds another file                           *)

\* rows of the three content tables
Rows(db) == Cardinality(db.folders) + Cardinality(db.files) + Cardinality(db.chunks)

\* response.n: the rows of folders, files and document_chunks that the call deleted
NoResponse == [op |-> "none", ok |-> TRUE, n |-> 0]

NoOrg == [done |-> FALSE]

\* a file created at path p; inode tells files apart when they are moved
DiskFile(p) == [path |-> p, inode |-> p]

\* Path.exists() of a file
FileExists(fs, p) == \E f \in fs : f.path = p

InitStore ==
  /\ folders = {} /\ files = {} /\ chunks = {} /\ actions = {}
  /\ seq = [folders |-> 0, files |-> 0, chunks |-> 0, actions |-> 0]

InitStatus ==
  /\ indexing_status = [is_indexing |-> FALSE, progress |-> 0, current_file |-> <<>>,
                        total_files |-> 0, processed_files |-> 0]
  /\ tasks = <<>>
  /\ running = 0

Init ==
  /\ InitStore
  /\ InitStatus
  /\ disk_dirs = {RootPath, SubPath}
  /\ disk_files = {DiskFile(RootPath \o <<"f1.txt">>), DiskFile(SubPath \o <<"f2.txt">>)}
  /\ response = NoResponse
  /\ org = NoOrg

SetDB(d) ==
  /\ folders' = d.folders
  /\ files' = d.files
  /\ chunks' = d.chunks
  /\ actions' = d.actions
  /\ seq' = d.seq

----------------------------------------------------------------------------
(* Calls of the store.  They run to completion on the event loop: no       *)
(* method of VectorStore suspends.                                         *)

AddFolder(folder_path, parent_id) ==
  /\ running = 0
  /\ seq.folders < MaxFolderId
  /\ LET r == add_folder(DB, folder_path, parent_id)
     IN /\ SetDB(r.db)
        /\ response' = [op |-> "add_folder", ok |-> r.ok,
                        n |-> IF r.ok THEN Rows(DB) + 1 - Rows(r.db) ELSE 0]
  /\ UNCHANGED <<diskVars, indexVars, org>>

AddFile(folder_id, file_path) ==
  /\ running = 0
  /\ seq.files < MaxFileId
  /\ LET r == add_file(DB, folder_id, file_path, 0)
     IN /\ SetDB(r.db)
        /\ response' = [op |-> "add_file", ok |-> r.ok,
                        n |-> IF r.ok THEN Rows(DB) + 1 - Rows(r.db) ELSE 0]
  /\ UNCHANGED <<diskVars, indexVars, org>>

AddDocumentChunk(file_id, chunk_index) ==
  /\ running = 0
  /\ seq.chunks < MaxChunkId
  /\ LET r == add_document_chunk(DB, file_id, chunk_index, 0)
     IN /\ SetDB(r.db)
        /\ response' = [op |-> "add_document_chunk", ok |-> r.ok, n |-> 0]
  /\ UNCHANGED <<diskVars, indexVars, org>>

UpdateFileLocation(file_id, new_path) ==
  /\ running = 0
  /\ LET r == update_file_location(DB, file_id, new_path)
     IN /\ SetDB(r.db)
        /\ response' = [op |-> "update_file_location", ok |-> r.ok, n |-> 0]
  /\ UNCHANGED <<diskVars, indexVars, org>>

\* main.remove_folder -> VectorStore.remove_folder
RemoveFolder(folder_id) ==
  /\ running = 0
  /\ SetDB(remove_folder(DB, folder_id))
  /\ response' = [op |-> "remove_folder", ok |-> TRUE,
                  n |-> Rows(DB) - Rows(remove_folder(DB, folder_id))]
  /\ UNCHANGED <<diskVars, indexVars, org>>

\* main.clear_index -> VectorStore.clear_all
ClearIndex ==
  /\ running = 0
  /\ SetDB(clear_all(DB))
  /\ response' = [op |-> "clear_all", ok |-> TRUE, n |-> Rows(DB)]
  /\ UNCHANGED <<diskVars, indexVars, org>>

\* main.get_indexed_folders -> VectorStore.get_indexed_folders
GetIndexedFolders ==
  /\ running = 0
  /\ SetDB(get_indexed_folders(DB))
  /\ response' = [op |-> "get_indexed_folders", ok |-> TRUE, n |-> 0]
  /\ UNCHANGED <<diskVars, indexVars, org>>

NextStore ==
  \/ \E p \in FolderPaths, parent \in {NULL} \cup 1..seq.folders : AddFolder(p, parent)
  \/ \E fid \in 1..seq.folders, p \in FilePaths : AddFile(fid, p)
  \/ \E fid \in 1..seq.files, i \in ChunkIndexes : AddDocumentChunk(fid, i)
  \/ \E fid \in 1..seq.files, p \in FilePaths : UpdateFileLocation(fid, p)
  \/ \E fid \in 1..seq.folders : RemoveFolder(fid)
  \/ ClearIndex
  \/ GetIndexedFolders

SpecStore == Init /\ [][NextStore]_vars

\* The calls that write folders and files.  No statement on these two tables
\* reads document_chunks, so their rows evolve the same with or without chunks.
NextTree ==
  \/ \E p \in FolderPaths, parent \in {NULL} \cup 1..seq.folders : AddFolder(p, parent)
  \/ \E fid \in 1..seq.folders, p \in FilePaths : AddFile(fid, p)
  \/ \E fid \in 1..seq.files, p \in FilePaths : UpdateFileLocation(fid, p)
  \/ \E fid \in 1..seq.folders : RemoveFolder(fid)
  \/ ClearIndex
  \/ GetIndexedFolders

SpecTree == Init /\ [][NextTree]_vars

----------------------------------------------------------------------------
(* The indexing run.  index_folders queues run_indexing as a background    *)
(* task, which starts after the response has been sent.  The task holds    *)
(* the event loop from its start to the asyncio.sleep(0.01) that follows   *)
(* each indexed file, and from there to the next sleep or to its end:      *)
(* count_files, add_folder, _index_file and the store never suspend.       *)

IndexRequests == {<<RootPath>>, <<SubPath>>, <<<<"X">>>>}

\* the files of the model hold a text shorter than chunk_size: _split_text
\* yields the one chunk 0 (none when the text is empty)
SplitIndexes == {0}

Active(t) == tasks[t].pc \notin {"queued", "done"}

\* the loop is free for task t to start or to resume, or t holds it
MayStep(t) ==
  \/ running = t
  \/ running = 0 /\ tasks[t].pc \in {"queued", "sleep"}

\* os.walk(folder_path): the files below the folder (all names of the model
\* have a supported extension)
Walk(fs, folder_path) ==
  {f.path : f \in {g \in fs : /\ Len(g.path) > Len(folder_path)
                              /\ SubSeq(g.path, 1, Len(folder_path)) = folder_path}}

\* count_files: the supported files below the folder (0 when it cannot be walked)
count_files(fs, folder_path) == Cardinality(Walk(fs, folder_path))

\* the counting pass of run_indexing over its folders, on the disk as it is
RECURSIVE SumCountFiles(_, _)
SumCountFiles(fs, folder_paths) ==
  IF folder_paths = <<>> THEN 0
  ELSE count_files(fs, Head(folder_paths)) + SumCountFiles(fs, Tail(folder_paths))

NewTask(folder_paths) ==
  [pc |-> "queued", folder_paths |-> folder_paths, k |-> 1, folder_id |-> NULL,
   todo |-> {}, processed_files |-> 0, total_files |-> 0, skipped |-> 0,
   written |-> {}, walked |-> 0]

\* main.index_folders
IndexFolders(folder_paths) ==
  /\ running = 0
  /\ IF indexing_status.is_indexing
     THEN /\ response' = [op |-> "index_folders", ok |-> FALSE, n |-> 409]
          /\ UNCHANGED tasks
     ELSE LET valid_folders == SelectSeq(folder_paths, LAMBDA p : p \in disk_dirs)
          IN IF valid_folders = <<>>
             THEN /\ response' = [op |-> "index_folders", ok |-> FALSE, n |-> 400]
                  /\ UNCHANGED tasks
             ELSE /\ Len(tasks) < MaxTasks
                  /\ tasks' = Append(tasks, NewTask(valid_folders))
                  /\ response' = [op |-> "index_folders", ok |-> TRUE, n |-> 200]
  /\ UNCHANGED <<storeVars, diskVars, indexing_status, running, org>>

\* the finally block of run_indexing
Finally(status) == [status EXCEPT !.is_indexing = FALSE, !.current_file = <<>>]

\* run_indexing, from its first statement to the end of the counting pass
RunStart(t) ==
  /\ tasks[t].pc = "queued" /\ MayStep(t)
  /\ LET total == SumCountFiles(disk_files, tasks[t].folder_paths)
         started == [indexing_status EXCEPT !.is_indexing = TRUE, !.progress = 0,
                                            !.processed_files = 0, !.total_files = total]
     IN IF total = 0
        THEN /\ indexing_status' = Finally(started)
             /\ tasks' = [tasks EXCEPT ![t].pc = "done"]
             /\ running' = 0
        ELSE /\ indexing_status' = started
             /\ tasks' = [tasks EXCEPT ![t].pc = "folder", ![t].total_files = total]
             /\ running' = t
  /\ response' = [op |-> "run_indexing", ok |-> TRUE, n |-> 0]
  /\ UNCHANGED <<storeVars, diskVars, org>>

\* index_folder up to its loop: the path check, add_folder and the listing;
\* a ValueError ends the run in the except and finally blocks of run_indexing
RunFolder(t) ==
  /\ tasks[t].pc = "folder" /\ MayStep(t)
  /\ tasks[t].k <= Len(tasks[t].folder_paths)
  /\ LET folder_path == tasks[t].folder_paths[tasks[t].k]
     IN IF folder_path \notin disk_dirs
        THEN /\ indexing_status' = Finally(indexing_status)
             /\ tasks' = [tasks EXCEPT ![t].pc = "done"]
             /\ running' = 0
             /\ UNCHANGED storeVars
        ELSE /\ LET r == add_folder(DB, folder_path, NULL)
                IN /\ SetDB(r.db)
                   /\ tasks' = [tasks EXCEPT
                                  ![t].pc = "walk", ![t].folder_id = r.id,
                                  ![t].todo = Walk(disk_files, folder_path),
                                  ![t].walked = @ + count_files(disk_files, folder_path)]
             /\ running' = t
             /\ UNCHANGED indexing_status
  /\ response' = [op |-> "index_folder", ok |-> TRUE, n |-> 0]
  /\ UNCHANGED <<diskVars, org>>

\* _index_file: add_file, then one chunk row for every chunk whose embedding
\* succeeds (idxs); yields [ok, db]
RECURSIVE AddChunks(_, _, _, _)
AddChunks(db, file_id, idxs, run) ==
  IF idxs = {} THEN db
  ELSE LET i == CHOOSE x \in idxs : \A y \in idxs : x <= y
           r == add_document_chunk(db, file_id, i, run)
       IN AddChunks(r.db, file_id, idxs \ {i}, run)

index_file(db, fs, folder_id, file_path, idxs, run) ==
  IF ~FileExists(fs, file_path)
  THEN [ok |-> FALSE, db |-> db]
  ELSE LET r == add_file(db, folder_id, file_path, run)
       IN IF ~r.ok
          THEN [ok |-> FALSE, db |-> db]
          ELSE [ok |-> TRUE, db |-> AddChunks(r.db, r.id, idxs, run)]

\* a variant in which the exception of a file leaves the loop over the files
FolderFailed(task, file_path) ==
  [task EXCEPT !.pc = "walk", !.todo = {}, !.skipped = @ + 1]

\* the except block in the loop of index_folder (lines 224-227): the error
\* is logged and the loop goes on with the next file
FileFailed(task, file_path) ==
  [task EXCEPT !.pc = "walk", !.todo = @ \ {file_path}, !.skipped = @ + 1]

\* one round of the loop of index_folder, with the body of the async for of
\* run_indexing when the file was indexed
RunFile(t, file_path, idxs) ==
  /\ tasks[t].pc \in {"walk", "sleep"} /\ MayStep(t)
  /\ file_path \in tasks[t].todo
  /\ LET r == index_file(DB, disk_files, tasks[t].folder_id, file_path, idxs, t)
         processed_files == tasks[t].processed_files + 1
         total_files == tasks[t].total_files
     IN /\ SetDB(r.db)
        /\ IF r.ok
           THEN /\ tasks' = [tasks EXCEPT ![t].pc = "sleep",
                                         ![t].todo = @ \ {file_path},
                                         ![t].processed_files = processed_files,
                                         ![t].written = IF idxs = {} THEN @
                                                        ELSE @ \cup {file_path}]
                /\ indexing_status' =
                     [indexing_status EXCEPT
                        !.current_file = file_path,
                        !.processed_files = processed_files,
                        !.progress = IF total_files > 0
                                     THEN (processed_files * 100) \div total_files
                                     ELSE 100]
                /\ running' = 0
           ELSE /\ tasks' = [tasks EXCEPT ![t] = FileFailed(@, file_path)]
                /\ running' = t
                /\ UNCHANGED indexing_status
  /\ response' = [op |-> "index_file", ok |-> TRUE, n |-> 0]
  /\ UNCHANGED <<diskVars, org>>

\* the loop of index_folder ends: run_indexing goes to its next folder
RunFolderEnd(t) ==
  /\ tasks[t].pc \in {"walk", "sleep"} /\ MayStep(t)
  /\ tasks[t].todo = {}
  /\ tasks' = [tasks EXCEPT ![t].pc = "folder", ![t].k = @ + 1]
  /\ running' = t
  /\ response' = [op |-> "index_folder", ok |-> TRUE, n |-> 0]
  /\ UNCHANGED <<storeVars, diskVars, indexing_status, org>>

\* run_indexing after its last folder: progress 100, then the finally block
RunFinish(t) ==
  /\ tasks[t].pc = "folder" /\ MayStep(t)
  /\ tasks[t].k > Len(tasks[t].folder_paths)
  /\ indexing_status' = Finally([indexing_status EXCEPT !.progress = 100])
  /\ tasks' = [tasks EXCEPT ![t].pc = "done"]
  /\ running' = 0
  /\ response' = [op |-> "run_indexing", ok |-> TRUE, n |-> 0]
  /\ UNCHANGED <<storeVars, diskVars, org>>

NextIndex ==
  \/ \E req \in IndexRequests : IndexFolders(req)
  \/ \E t \in DOMAIN tasks : RunStart(t)
  \/ \E t \in DOMAIN tasks : RunFolder(t)
  \/ \E t \in DOMAIN tasks : \E p \in tasks[t].todo, idxs \in SUBSET SplitIndexes :
        RunFile(t, p, idxs)
  \/ \E t \in DOMAIN tasks : RunFolderEnd(t)
  \/ \E t \in DOMAIN tasks : RunFinish(t)
  \/ \E fid \in 1..seq.folders : RemoveFolder(fid)
  \/ ClearIndex

SpecIndex == Init /\ [][NextIndex]_vars

----------------------------------------------------------------------------
(* The organiser.  execute_organisation runs to completion on the event    *)
(* loop: the store and the classifier never suspend.  A behaviour of       *)
(* SpecOrg holds one call of it, on a disk that files may have left.       *)

FileNameOrder == <<"f1.txt", "f2.txt", "f3.txt">>

FileName(p) == p[Len(p)]

\* generate_folder_name: the display name of a category
CategoryOf(folder_name) ==
  IF folder_name = "Documents" THEN "documents" ELSE "miscellaneous"

\* shutil.move of a file: a file at the target path is overwritten
Move(fs, source_path, target_path) ==
  {f \in fs : f.path \notin {source_path, target_path}}
    \cup {[f EXCEPT !.path = target_path] : f \in {g \in fs : g.path = source_path}}

\* the entries of actions_log
MoveAction(c, target_path, status) ==
  [action_type |-> "move", source_path |-> c.file_path, target_path |-> target_path,
   classification |-> c.classification, status |-> status]

\* folder_groups: the suggested folders in the order of their first
\* classification, each with its classifications in order
RECURSIVE GroupNames(_)
GroupNames(cls) ==
  IF cls = <<>> THEN <<>>
  ELSE LET rest == GroupNames(SubSeq(cls, 1, Len(cls) - 1))
           name == cls[Len(cls)].suggested_folder
       IN IF \E k \in DOMAIN rest : rest[k] = name THEN rest ELSE Append(rest, name)

GroupOf(cls, name) == SelectSeq(cls, LAMBDA c : c.suggested_folder = name)

\* the loop over the classifications of one group (lines 285-316); st.cur is
\* the loop variable classification; raised: the body raised at st.cur
RECURSIVE MoveFiles(_, _, _, _)
MoveFiles(st, target_folder, cls, fails) ==
  IF cls = <<>> THEN [st |-> st, raised |-> FALSE]
  ELSE LET c == Head(cls)
           source_path == c.file_path
           target_path == Append(target_folder, FileName(source_path))
           s1 == [st EXCEPT !.cur = c]
       IN IF FileExists(st.fs, source_path) /\ source_path # target_path
          THEN IF c.file_id \in fails
               THEN [st |-> s1, raised |-> TRUE]
               ELSE LET fs1 == Move(st.fs, source_path, target_path)
                        u == update_file_location(st.db, c.file_id, target_path)
                    IN IF ~u.ok
                       THEN [st |-> [s1 EXCEPT !.fs = fs1, !.moved = @ + 1],
                             raised |-> TRUE]
                       ELSE MoveFiles(
                              [s1 EXCEPT !.fs = fs1, !.moved = @ + 1, !.db = u.db,
                                 !.log = Append(@, MoveAction(c, target_path, "completed"))],
                              target_folder, Tail(cls), fails)
          ELSE MoveFiles(s1, target_folder, Tail(cls), fails)

\* the loop over the groups (lines 272-332): the folder is made and
\* registered, the files are moved, and whatever raises in the group is
\* logged as one failed action of the loop variable classification.
\* st.faults.mkdir: the folder names whose mkdir raises
RECURSIVE MoveGroups(_, _, _, _, _, _)
MoveGroups(st, base_path, folder_id, cls, names, fails) ==
  IF names = <<>> THEN st
  ELSE LET folder_name == Head(names)
           target_folder == Append(base_path, folder_name)
           made == target_folder \notin st.dirs
           r == add_subfolder(st.db, folder_id, target_folder)
           s1 == IF made
                 THEN [st EXCEPT !.dirs = @ \cup {target_folder},
                                 !.created = @ \cup {target_folder},
                                 !.db = IF r.ok THEN r.db ELSE @]
                 ELSE st
           m == IF made /\ folder_name \in st.faults.mkdir
                THEN [st |-> st, raised |-> TRUE]
                ELSE IF made /\ ~r.ok
                THEN [st |-> s1, raised |-> TRUE]
                ELSE MoveFiles(s1, target_folder, GroupOf(cls, folder_name), fails)
           s2 == IF m.raised
                 THEN [m.st EXCEPT !.log =
                         Append(@, MoveAction(m.st.cur, target_folder, "failed"))]
                 ELSE m.st
       IN MoveGroups(s2, base_path, folder_id, cls, Tail(names), fails)

\* save_organisation_actions: one INSERT per action, then the commit.  bad:
\* the position in the log of the action whose INSERT raises (a value that
\* sqlite3 cannot bind, an I/O error), 0 for none.  The except block logs
\* and raises again without a rollback: the rows inserted so far stay in the
\* open transaction of the one connection that every call shares, where
\* every later read sees them and the next commit of any call persists them
RECURSIVE save_organisation_actions(_, _, _, _)
save_organisation_actions(db, folder_id, log, bad) ==
  IF log = <<>> THEN [ok |-> TRUE, id |-> NULL, db |-> db]
  ELSE IF bad = 1 \/ (ForeignKeys /\ folder_id \notin Ids(db.folders))
       THEN [ok |-> FALSE, id |-> NULL, db |-> db]
       ELSE LET id == db.seq.actions + 1
                a == Head(log)
                row == [id |-> id, folder_id |-> folder_id,
                        action_type |-> a.action_type, source_path |-> a.source_path,
                        target_path |-> a.target_path,
                        classification |-> a.classification, status |-> a.status]
            IN save_organisation_actions(
                 [db EXCEPT !.actions = @ \cup {row}, !.seq.actions = id],
                 folder_id, Tail(log), IF bad = 0 THEN 0 ELSE bad - 1)

\* _rollback_actions: the log in reverse; a completed move whose target is
\* still there is moved back and the store follows; an error is skipped.
\* st.faults.rollback: the source paths whose move back raises
RECURSIVE rollback_actions(_, _)
rollback_actions(st, log) ==
  IF log = <<>> THEN st
  ELSE LET action == log[Len(log)]
           source_path == action.target_path
           target_path == action.source_path
           rest == SubSeq(log, 1, Len(log) - 1)
       IN IF /\ action.action_type = "move" /\ action.status = "completed"
             /\ FileExists(st.fs, source_path)
             /\ target_path \notin st.faults.rollback
          THEN LET u == update_file_location_by_path(st.db, source_path, target_path)
               IN rollback_actions(
                    [st EXCEPT !.fs = Move(@, source_path, target_path),
                               !.db = IF u.ok THEN u.db ELSE @], rest)
          ELSE rollback_actions(st, rest)

\* a variant of the early return that counts the folders of the plan
execute_counting_folders(st, classifications) ==
  [st |-> st, actions_needed |-> Len(GroupNames(classifications))]

\* execute_organisation without confirm: the early return of lines 249-254
execute_without_confirm(st, classifications) ==
  [st |-> st, actions_needed |-> Len(classifications)]

NoFaults == [mkdir |-> {}, rollback |-> {}]

\* execute_organisation(folder_id, classifications, confirm).  fails: the
\* file ids whose shutil.move raises; bad: the position of the action whose
\* INSERT in save_organisation_actions raises (0: none); faults: the folder
\* names whose mkdir raises and the source paths whose move back in the
\* rollback raises
ExecuteOrganisation(folder_id, classifications, confirm, fails, bad, faults) ==
  /\ running = 0
  /\ ~org.done
  /\ folder_id \in Ids(folders)
  /\ seq.actions + Len(classifications) <= MaxActionId
  /\ IF ~confirm
     THEN LET r == execute_without_confirm(
                     [db |-> DB, dirs |-> disk_dirs, fs |-> disk_files], classifications)
          IN /\ SetDB(r.st.db)
             /\ disk_dirs' = r.st.dirs
             /\ disk_files' = r.st.fs
             /\ org' = [done |-> TRUE, confirm |-> FALSE, plan |-> classifications,
                        fails |-> fails, log |-> <<>>, raised |-> FALSE,
                        actions_needed |-> r.actions_needed, moved_files |-> 0,
                        pre_fs |-> disk_files]
     ELSE LET folder_info == CHOOSE f \in folders : f.id = folder_id
              base_path == folder_info.path
              st0 == [db |-> DB, dirs |-> disk_dirs, fs |-> disk_files, log |-> <<>>,
                      moved |-> 0, created |-> {}, faults |-> faults,
                      cur |-> classifications[Len(classifications)]]
              st1 == MoveGroups(st0, base_path, folder_id, classifications,
                                GroupNames(classifications), fails)
              saved == save_organisation_actions(st1.db, folder_id, st1.log, bad)
              raised == ~saved.ok
              st2 == IF raised
                     THEN rollback_actions([st1 EXCEPT !.db = saved.db], st1.log)
                     ELSE [st1 EXCEPT !.db = saved.db]
          IN /\ SetDB(st2.db)
             /\ disk_dirs' = st2.dirs
             /\ disk_files' = st2.fs
             /\ org' = [done |-> TRUE, confirm |-> TRUE, plan |-> classifications,
                        fails |-> fails, log |-> st1.log, raised |-> raised,
                        actions_needed |-> 0, moved_files |-> st1.moved,
                        pre_fs |-> disk_files, pre_files |-> files,
                        moved_fs |-> st1.fs, moved_rows |-> st1.db.files,
                        faults |-> faults]
  /\ response' = [op |-> "execute_organisation", ok |-> TRUE, n |-> 0]
  /\ UNCHANGED indexVars

\* what analyze_folder_for_organisation hands to the caller: the files below
\* the folder in the order of their names, each with a suggested folder
RECURSIVE SortedBy(_, _)
SortedBy(fset, names) ==
  IF names = <<>> THEN <<>>
  ELSE LET here == {f \in fset : FileName(f.file_path) = Head(names)}
           RECURSIVE ById(_)
           ById(S) == IF S = {} THEN <<>>
                      ELSE LET f == CHOOSE x \in S : \A y \in S : x.id <= y.id
                           IN <<f>> \o ById(S \ {f})
       IN ById(here) \o SortedBy(fset, Tail(names))

Classifications(folder_id, suggest) ==
  LET fs == SortedBy(get_files_in_folder_recursive(DB, folder_id), FileNameOrder)
  IN [i \in DOMAIN fs |->
        [file_id |-> fs[i].id, file_path |-> fs[i].file_path,
         suggested_folder |-> suggest[FileName(fs[i].file_path)],
         classification |-> CategoryOf(suggest[FileName(fs[i].file_path)])]]

\* a variant of the analysis that makes the first suggested folder on the
\* disk when it is not a dry run
analyze_and_prepare(st, folder_id, dry_run) ==
  LET found == get_folder_by_id(st.db, folder_id)
      n == Cardinality(get_files_in_folder_recursive(st.db, folder_id))
  IN IF found = {} THEN [ok |-> FALSE, st |-> st, total_files |-> 0]
     ELSE [ok |-> TRUE, total_files |-> n,
           st |-> IF dry_run \/ n = 0 THEN st
                  ELSE [st EXCEPT !.dirs = @ \cup
                          {Append((CHOOSE f \in found : TRUE).path, "Documents")}]]

\* analyze_folder_for_organisation(folder_id, dry_run): the folder row, the
\* files below it and their chunks are read and classified; dry_run is only
\* logged.  st: the store and the disk as the call leaves them
analyze_folder_for_organisation(st, folder_id, dry_run) ==
  LET found == get_folder_by_id(st.db, folder_id)
  IN IF found = {} THEN [ok |-> FALSE, st |-> st, total_files |-> 0]
     ELSE [ok |-> TRUE, st |-> st,
           total_files |-> Cardinality(get_files_in_folder_recursive(st.db, folder_id))]

AnalyzeFolder(folder_id, dry_run) ==
  /\ running = 0
  /\ LET r == analyze_folder_for_organisation(
                [db |-> DB, dirs |-> disk_dirs, fs |-> disk_files], folder_id, dry_run)
     IN /\ SetDB(r.st.db)
        /\ disk_dirs' = r.st.dirs
        /\ disk_files' = r.st.fs
        /\ response' = [op |-> IF dry_run THEN "analyze_dry_run" ELSE "analyze",
                        ok |-> r.ok, n |-> r.total_files]
  /\ UNCHANGED <<indexVars, org>>

\* a file is deleted from the disk behind the back of the program
ExternalDelete(p) ==
  /\ FileExists(disk_files, p)
  /\ disk_files' = {f \in disk_files : f.path # p}
  /\ response' = [op |-> "external_delete", ok |-> TRUE, n |-> 0]
  /\ UNCHANGED <<storeVars, disk_dirs, indexVars, org>>

\* the state after folder A with its three files has been indexed
InitOrg ==
  LET d0 == [folders |-> {}, files |-> {}, chunks |-> {}, actions |-> {},
             seq |-> [folders |-> 0, files |-> 0, chunks |-> 0, actions |-> 0]]
      d1 == add_folder(d0, RootPath, NULL).db
      d2 == add_file(d1, 1, RootPath \o <<"f1.txt">>, 0).db
      d3 == add_file(d2, 1, RootPath \o <<"f2.txt">>, 0).db
      d4 == add_file(d3, 1, RootPath \o <<"f3.txt">>, 0).db
      d5 == add_document_chunk(d4, 1, 0, 0).db
  IN /\ folders = d5.folders /\ files = d5.files /\ chunks = d5.chunks
     /\ actions = d5.actions /\ seq = d5.seq
     /\ InitStatus
     /\ disk_dirs = {RootPath}
     /\ disk_files = {DiskFile(RootPath \o <<n>>) : n \in FileNames}
     /\ response = NoResponse
     /\ org = NoOrg

NextOrg ==
  \/ /\ ~org.done
     /\ \E id \in Ids(folders), suggest \in [FileNames -> FolderNames],
           confirm \in BOOLEAN, fails \in SUBSET Ids(files), bad \in 0..MaxActionId :
          LET classifications == Classifications(id, suggest)
          IN /\ classifications # <<>>
             /\ ExecuteOrganisation(id, classifications, confirm, fails, bad, NoFaults)
  \/ \E f \in disk_files : ExternalDelete(f.path)
  \/ \E id \in 1..seq.folders, dry_run \in BOOLEAN : AnalyzeFolder(id, dry_run)
  \/ AddFolder(RootPath, NULL)   \* index_folder of a new run registers the folder again

SpecOrg == InitOrg /\ [][NextOrg]_vars

----------------------------------------------------------------------------
(* The organiser on a folder that holds two files of one name, A/f1.txt    *)
(* and A/Documents/f1.txt, with moves, folder creations, the save of the   *)
(* log and moves of the rollback that may raise.  The classifications      *)
(* suggest a folder for each file.  A behaviour of SpecOrgFaults holds one *)
(* call of execute_organisation.                                           *)

ClashFiles == <<RootPath \o <<"f1.txt">>, SubPath \o <<"f1.txt">>, RootPath \o <<"f2.txt">>>>

\* the classifications of the files below a folder, in the order of their
\* names and ids, file id by file id
ClassificationsById(folder_id, suggest) ==
  LET fs == SortedBy(get_files_in_folder_recursive(DB, folder_id), FileNameOrder)
  IN [i \in DOMAIN fs |->
        [file_id |-> fs[i].id, file_path |-> fs[i].file_path,
         suggested_folder |-> suggest[fs[i].id],
         classification |-> CategoryOf(suggest[fs[i].id])]]

\* the state after folder A was indexed: its files, those of A/Documents
\* included, are rows of folder A, in either order of the two f1.txt
InitOrgFaults ==
  \E first \in 1..2 :
    LET d0 == [folders |-> {}, files |-> {}, chunks |-> {}, actions |-> {},
               seq |-> [folders |-> 0, files |-> 0, chunks |-> 0, actions |-> 0]]
        d1 == add_folder(d0, RootPath, NULL).db
        d2 == add_file(d1, 1, ClashFiles[first], 0).db
        d3 == add_file(d2, 1, ClashFiles[3 - first], 0).db
        d4 == add_file(d3, 1, ClashFiles[3], 0).db
    IN /\ folders = d4.folders /\ files = d4.files /\ chunks = d4.chunks
       /\ actions = d4.actions /\ seq = d4.seq
       /\ InitStatus
       /\ disk_dirs = {RootPath, SubPath}
       /\ disk_files = {DiskFile(ClashFiles[i]) : i \in DOMAIN ClashFiles}
       /\ response = NoResponse
       /\ org = NoOrg

NextOrgFaults ==
  /\ ~org.done
  /\ \E suggest \in [Ids(files) -> FolderNames], fails \in SUBSET Ids(files),
        bad \in 0..MaxActionId, mkdir \in SUBSET FolderNames,
        rollback \in SUBSET {ClashFiles[i] : i \in DOMAIN ClashFiles} :
       /\ bad = 0 => rollback = {}
       /\ ExecuteOrganisation(1, ClassificationsById(1, suggest), TRUE, fails, bad,
                              [mkdir |-> mkdir, rollback |-> rollback])

SpecOrgFaults == InitOrgFaults /\ [][NextOrgFaults]_vars

----------------------------------------------------------------------------
(* The indexing run on a disk that other programs write to while the run   *)
(* counts, walks and indexes.  A behaviour of SpecWalk holds one run.      *)

WalkRequests == {<<RootPath>>, <<SubPath, RootPath>>}

\* the files that other programs make and delete
WalkFiles == {RootPath \o <<"f1.txt">>, RootPath \o <<"f3.txt">>, SubPath \o <<"f2.txt">>}

\* a file is made on the disk behind the back of the program
ExternalCreate(p) ==
  /\ ~FileExists(disk_files, p)
  /\ disk_files' = disk_files \cup {DiskFile(p)}
  /\ response' = [op |-> "external_create", ok |-> TRUE, n |-> 0]
  /\ UNCHANGED <<storeVars, disk_dirs, indexVars, org>>

NextWalk ==
  \/ tasks = <<>> /\ \E req \in WalkRequests : IndexFolders(req)
  \/ \E t \in DOMAIN tasks : RunStart(t)
  \/ \E t \in DOMAIN tasks : RunFolder(t)
  \/ \E t \in DOMAIN tasks : \E p \in tasks[t].todo, idxs \in SUBSET SplitIndexes :
        RunFile(t, p, idxs)
  \/ \E t \in DOMAIN tasks : RunFolderEnd(t)
  \/ \E t \in DOMAIN tasks : RunFinish(t)
  \/ \E p \in WalkFiles : ExternalCreate(p)
  \/ \E p \in WalkFiles : ExternalDelete(p)

SpecWalk == Init /\ [][NextWalk]_vars

----------------------------------------------------------------------------
(* Search.  The cosine similarity of a chunk to the query is a number of   *)
(* tenths; sims gives it for every stored chunk.  The division by the norm *)
(* of a zero stored embedding yields NaN, which compares false with every  *)
(* threshold.                                                              *)
(* A behaviour of SpecSearch starts from an indexed file with some chunks  *)
(* and holds one search call or search request on it.                      *)

NaN == 99
Similarities == {0, 2, 3, 7, NaN}
Thresholds == {0, 3, 7}
Limits == {-1, 0, 1, 2}
DefaultLimit == 10
DefaultThreshold == 3

\* the rows of SELECT ... FROM document_chunks dc JOIN files f, in the
\* order of the chunk ids
RECURSIVE SearchRows(_)
SearchRows(db) ==
  LET joined == {c \in db.chunks : c.file_id \in Ids(db.files)}
  IN IF joined = {} THEN <<>>
     ELSE LET c == CHOOSE x \in joined : \A y \in joined : y.id <= x.id
          IN Append(SearchRows([db EXCEPT !.chunks = @ \ {c}]), c.id)

\* results.sort(key = similarity_score, reverse = True): the sort is stable,
\* equal scores keep their order
RECURSIVE SortBySimilarity(_)
SortBySimilarity(results) ==
  IF results = <<>> THEN <<>>
  ELSE LET best == CHOOSE i \in DOMAIN results :
                     /\ \A j \in DOMAIN results :
                          results[j].similarity_score <= results[i].similarity_score
                     /\ \A j \in 1..(i - 1) :
                          results[j].similarity_score < results[i].similarity_score
           rest == [j \in 1..(Len(results) - 1) |->
                      IF j < best THEN results[j] ELSE results[j + 1]]
       IN <<results[best]>> \o SortBySimilarity(rest)

\* results[:limit] of a Python list: a negative limit counts from the end
Slice(results, limit) ==
  IF limit >= 0
  THEN SubSeq(results, 1, IF limit < Len(results) THEN limit ELSE Len(results))
  ELSE SubSeq(results, 1, IF Len(results) + limit > 0 THEN Len(results) + limit ELSE 0)

\* similarity >= threshold of numpy floats
AtLeast(similarity, threshold) == similarity # NaN /\ similarity >= threshold

\* VectorStore.search, from the fetched rows on
search(db, sims, limit, threshold) ==
  LET rows == SearchRows(db)
      all == [i \in DOMAIN rows |-> [chunk |-> rows[i], similarity_score |-> sims[rows[i]]]]
      results == SelectSeq(all, LAMBDA r : AtLeast(r.similarity_score, threshold))
  IN IF rows = <<>> THEN <<>>
     ELSE Slice(SortBySimilarity(results), limit)

\* a call of VectorStore.search
Search(sims, limit, threshold) ==
  /\ running = 0
  /\ LET results == search(DB, sims, limit, threshold)
     IN response' = [op |-> "search", ok |-> TRUE, n |-> Len(results), sims |-> sims,
                     limit |-> limit, threshold |-> threshold, results |-> results]
  /\ UNCHANGED <<storeVars, diskVars, indexVars, org>>

\* main.search_files: no search without chunks; limit or 10, threshold or 0.3
SearchFiles(sims, limit, threshold) ==
  /\ running = 0
  /\ LET results == IF chunks = {} THEN <<>>
                    ELSE search(DB, sims,
                                IF limit = 0 THEN DefaultLimit ELSE limit,
                                IF threshold = 0 THEN DefaultThreshold ELSE threshold)
     IN response' = [op |-> "search_files", ok |-> TRUE, n |-> Len(results),
                     sims |-> sims, limit |-> limit, threshold |-> threshold,
                     results |-> results]
  /\ UNCHANGED <<storeVars, diskVars, indexVars, org>>

\* file A/f1.txt indexed with n chunks
RECURSIVE IndexedChunks(_, _)
IndexedChunks(db, n) ==
  IF n = 0 THEN db
  ELSE add_document_chunk(IndexedChunks(db, n - 1), 1, n - 1, 0).db

InitSearch ==
  \E n \in 0..MaxSearchChunks :
    LET d0 == [folders |-> {}, files |-> {}, chunks |-> {}, actions |-> {},
               seq |-> [folders |-> 0, files |-> 0, chunks |-> 0, actions |-> 0]]
        d1 == add_folder(d0, RootPath, NULL).db
        d2 == add_file(d1, 1, RootPath \o <<"f1.txt">>, 0).db
        d3 == IndexedChunks(d2, n)
    IN /\ folders = d3.folders /\ files = d3.files /\ chunks = d3.chunks
       /\ actions = d3.actions /\ seq = d3.seq
       /\ InitStatus
       /\ disk_dirs = {RootPath}
       /\ disk_files = {DiskFile(RootPath \o <<"f1.txt">>)}
       /\ response = NoResponse
       /\ org = NoOrg

NextSearch ==
  \/ /\ response = NoResponse
     /\ \E sims \in [Ids(chunks) -> Similarities], limit \in Limits,
           threshold \in Thresholds : Search(sims, limit, threshold)
  \/ /\ response = NoResponse
     /\ \E sims \in [Ids(chunks) -> Similarities], limit \in Limits,
           threshold \in Thresholds : SearchFiles(sims, limit, threshold)

SpecSearch == InitSearch /\ [][NextSearch]_vars

----------------------------------------------------------------------------
(* The text splitter.  A text is a sequence of characters; a behaviour of  *)
(* SpecSplit holds one call of _split_text.  The indexer calls it with the *)
(* default chunk_size and overlap only; the sizes here are scaled down and  *)
(* keep overlap below half the chunk size, as the defaults do.             *)

Alphabet == {" ", "a", ".", "\n"}
Whitespace == {" ", "\n", "\t", "\r"}
SentenceEnds == {".", "!", "?", "\n"}
ChunkSizes == {2, 3, 4}
Overlaps == {0, 1}
ScanBack == 200
Texts == UNION {[1..n -> Alphabet] : n \in 0..MaxTextLen}

\* str.strip(): the text without its leading and trailing whitespace
strip(text) ==
  LET inner == {i \in DOMAIN text : text[i] \notin Whitespace}
  IN IF inner = {} THEN <<>>
     ELSE SubSeq(text, CHOOSE i \in inner : \A j \in inner : i <= j,
                       CHOOSE i \in inner : \A j \in inner : j <= i)

\* text[start:end] of a Python string, 0 <= start
PySlice(text, start, end) ==
  SubSeq(text, start + 1, IF end < Len(text) THEN end ELSE Len(text))

\* the end of the chunk that starts at start: start + chunk_size, moved to
\* just after the last sentence end found scanning back from there
ChunkEnd(text, chunk_size, start) ==
  LET end == start + chunk_size
      half == start + chunk_size \div 2
      stop == IF half > end - ScanBack THEN half ELSE end - ScanBack
      found == {i \in (stop + 1)..end : text[i + 1] \in SentenceEnds}
  IN IF end < Len(text) /\ found # {}
     THEN (CHOOSE i \in found : \A j \in found : j <= i) + 1
     ELSE end

\* the while loop of _split_text
RECURSIVE SplitLoop(_, _, _, _, _)
SplitLoop(text, chunk_size, overlap, start, result) ==
  IF ~(start < Len(text)) THEN result
  ELSE LET end == ChunkEnd(text, chunk_size, start)
           chunk == strip(PySlice(text, start, end))
           appended == IF chunk # <<>> THEN Append(result, chunk) ELSE result
       IN IF end - overlap >= Len(text) THEN appended
          ELSE SplitLoop(text, chunk_size, overlap, end - overlap, appended)

_split_text(text, chunk_size, overlap) ==
  IF Len(text) <= chunk_size THEN <<text>>
  ELSE SplitLoop(text, chunk_size, overlap, 0, <<>>)

\* a call of FileIndexer._split_text
SplitText(text, chunk_size, overlap) ==
  /\ response = NoResponse
  /\ LET result == _split_text(text, chunk_size, overlap)
     IN response' = [op |-> "split_text", ok |-> TRUE, n |-> Len(result), text |-> text,
                     chunk_size |-> chunk_size, overlap |-> overlap, chunks |-> result]
  /\ UNCHANGED <<storeVars, diskVars, indexVars, org>>

NextSplit ==
  /\ response = NoResponse
  /\ \E text \in Texts, chunk_size \in ChunkSizes, overlap \in Overlaps :
       SplitText(text, chunk_size, overlap)

SpecSplit == Init /\ [][NextSplit]_vars

----------------------------------------------------------------------------
(* The loop of the text splitter, one iteration per step.  response holds  *)
(* the position of the call: the text and the sizes it was called with,    *)
(* start, the chunks appended so far and, as a ghost, the window           *)
(* <<start, end>> of the text that each appended chunk was cut from.  A    *)
(* loop that does not advance start is followed for MaxLoopLen iterations. *)

LoopAlphabet == {" ", "a", "."}
LoopTexts == UNION {[1..n -> LoopAlphabet] : n \in 0..MaxLoopLen}
LoopSizes == {ps \in (1..MaxChunkSize) \X (0..MaxChunkSize) : ps[2] < ps[1]}

\* start = end - overlap
NextStartSkipping(end, overlap) == end + overlap

NextStart(end, overlap) == end - overlap

\* the call up to the first test of the while loop
SplitCall(text, chunk_size, overlap) ==
  /\ response = NoResponse
  /\ response' =
       IF Len(text) <= chunk_size
       THEN [op |-> "split_return", ok |-> TRUE, n |-> 0, text |-> text,
             chunk_size |-> chunk_size, overlap |-> overlap, start |-> 0,
             chunks |-> <<text>>, windows |-> <<<<0, Len(text)>>>>]
       ELSE [op |-> "split_loop", ok |-> TRUE, n |-> 0, text |-> text,
             chunk_size |-> chunk_size, overlap |-> overlap, start |-> 0,
             chunks |-> <<>>, windows |-> <<>>]
  /\ UNCHANGED <<storeVars, diskVars, indexVars, org>>

\* one iteration of the while loop; the loop is left when the new start is
\* at or past the end of the text
SplitIterate ==
  /\ response.op = "split_loop"
  /\ response.n < MaxLoopLen
  /\ LET text == response.text
         start == response.start
         end == ChunkEnd(text, response.chunk_size, start)
         chunk == strip(PySlice(text, start, end))
         next == NextStart(end, response.overlap)
     IN response' = [response EXCEPT
                       !.op = IF next >= Len(text) THEN "split_return" ELSE "split_loop",
                       !.n = @ + 1,
                       !.start = next,
                       !.chunks = IF chunk # <<>> THEN Append(@, chunk) ELSE @,
                       !.windows = IF chunk # <<>> THEN Append(@, <<start, end>>) ELSE @]
  /\ UNCHANGED <<storeVars, diskVars, indexVars, org>>

NextSplitLoop ==
  \/ /\ response = NoResponse
     /\ \E text \in LoopTexts, ps \in LoopSizes : SplitCall(text, ps[1], ps[2])
  \/ SplitIterate

SpecSplitLoop == Init /\ [][NextSplitLoop]_vars

----------------------------------------------------------------------------
(* The classifier.  A score is a Python float, an IEEE double: it is kept  *)
(* as a whole number of units of 2^-55 in two limbs, hi * 2^28 + lo, and   *)
(* a sum is rounded to 53 significant bits, ties to even, as += does.      *)

Limb == 268435456

\* the doubles that the literals 0.4, 0.3, 0.2, 0.1 and 1.0 denote, and 0
PatternWeight == [hi |-> 53687091, lo |-> 53687092]
KeywordWeight == [hi |-> 40265318, lo |-> 107374182]
ContentWeight == [hi |-> 26843545, lo |-> 161061274]
FallbackConfidence == [hi |-> 13421772, lo |-> 214748365]
ScoreCap == [hi |-> 134217728, lo |-> 0]
Zero == [hi |-> 0, lo |-> 0]

\* the distance of neighbouring doubles at a value, in units of 2^-55
Ulp(hi) ==
  IF hi < 33554432 THEN 1
  ELSE IF hi < 67108864 THEN 2
  ELSE IF hi < 134217728 THEN 4
  ELSE IF hi < 268435456 THEN 8
  ELSE IF hi < 536870912 THEN 16
  ELSE 32

\* a + b of two doubles that are not negative
FloatAdd(a, b) ==
  LET lo0 == a.lo + b.lo
      hi1 == a.hi + b.hi + lo0 \div Limb
      lo1 == lo0 % Limb
      m == Ulp(hi1)
      r == lo1 % m
      down == lo1 - r
      lo2 == IF 2 * r < m THEN down
             ELSE IF 2 * r > m THEN down + m
             ELSE IF (down \div m) % 2 = 0 THEN down ELSE down + m
  IN [hi |-> hi1 + lo2 \div Limb, lo |-> lo2 % Limb]

FloatLess(a, b) == a.hi < b.hi \/ (a.hi = b.hi /\ a.lo < b.lo)

\* a score that is not capped
Uncapped(a, b) == a

\* min(a, b) of Python: b only when it is below a
FloatMin(a, b) == IF FloatLess(b, a) THEN b ELSE a

\* the float after n times += weight
RECURSIVE AddTimes(_, _, _)
AddTimes(score, weight, n) ==
  IF n = 0 THEN score ELSE AddTimes(FloatAdd(score, weight), weight, n - 1)

\* the words of the file names, directories and contents that are classified
NameWords == {"invoice", "march", "report", "document", "guide", "certificate",
              "billing", "summary"}
DirWords == {"reports"}
ContentWords == {"total", "amount", "due", "contract", "summary"}
Extensions == {"", ".pdf", ".csv"}

\* a file path dir/words.ext: the words of the name are joined by "_", and
\* the name is not empty
ClassifiedFiles ==
  {[dir |-> d, words |-> w, ext |-> e] :
     d \in {{}} \cup {{x} : x \in DirWords},
     w \in {s \in SUBSET NameWords : Cardinality(s) <= MaxNameWords},
     e \in Extensions} \ {[dir |-> d, words |-> {}, ext |-> ""] : d \in SUBSET DirWords}

\* a content is the set of its words; the empty set is the content ""
Contents == {s \in SUBSET ContentWords : Cardinality(s) <= MaxContentWords}

Categories ==
  <<"documents", "invoices", "reports", "presentations",
    "spreadsheets", "images", "videos", "audio",
    "code", "archives", "certificates">>

classification_rules ==
  "documents" :>
    [patterns |-> <<[re |-> "\\.pdf$", exts |-> {".pdf"}],
                   [re |-> "\\.docx?$", exts |-> {".doc", ".docx"}],
                   [re |-> "\\.txt$", exts |-> {".txt"}],
                   [re |-> "\\.rtf$", exts |-> {".rtf"}],
                   [re |-> "\\.odt$", exts |-> {".odt"}]>>,
     keywords |-> <<"document", "report", "manual", "guide", "specification">>,
     content_keywords |-> <<"contract", "agreement", "policy", "procedure">>] @@
  "invoices" :>
    [patterns |-> <<[re |-> "invoice", exts |-> {}],
                   [re |-> "bill", exts |-> {}],
                   [re |-> "receipt", exts |-> {}],
                   [re |-> "payment", exts |-> {}]>>,
     keywords |-> <<"invoice", "bill", "receipt", "payment", "charge">>,
     content_keywords |-> <<"total", "amount", "due", "invoice", "billing">>] @@
  "reports" :>
    [patterns |-> <<[re |-> "report", exts |-> {}],
                   [re |-> "analysis", exts |-> {}],
                   [re |-> "summary", exts |-> {}],
                   [re |-> "review", exts |-> {}]>>,
     keywords |-> <<"report", "analysis", "summary", "review", "findings">>,
     content_keywords |-> <<"conclusion", "recommendation", "analysis", "findings">>] @@
  "presentations" :>
    [patterns |-> <<[re |-> "\\.pptx?$", exts |-> {".ppt", ".pptx"}],
                   [re |-> "\\.key$", exts |-> {".key"}],
                   [re |-> "\\.odp$", exts |-> {".odp"}]>>,
     keywords |-> <<"presentation", "slides", "deck", "pitch">>,
     content_keywords |-> <<"slide", "presentation", "overview">>] @@
  "spreadsheets" :>
    [patterns |-> <<[re |-> "\\.xlsx?$", exts |-> {".xls", ".xlsx"}],
                   [re |-> "\\.csv$", exts |-> {".csv"}],
                   [re |-> "\\.ods$", exts |-> {".ods"}]>>,
     keywords |-> <<"spreadsheet", "data", "calculation", "budget">>,
     content_keywords |-> <<"total", "sum", "calculation", "budget">>] @@
  "images" :>
    [patterns |-> <<[re |-> "\\.jpe?g$", exts |-> {".jpg", ".jpeg"}],
                   [re |-> "\\.png$", exts |-> {".png"}],
                   [re |-> "\\.gif$", exts |-> {".gif"}],
                   [re |-> "\\.bmp$", exts |-> {".bmp"}],
                   [re |-> "\\.svg$", exts |-> {".svg"}],
                   [re |-> "\\.tiff?$", exts |-> {".tif", ".tiff"}]>>,
     keywords |-> <<"image", "photo", "picture", "graphic">>,
     content_keywords |-> <<>>] @@
  "videos" :>
    [patterns |-> <<[re |-> "\\.mp4$", exts |-> {".mp4"}],
                   [re |-> "\\.avi$", exts |-> {".avi"}],
                   [re |-> "\\.mov$", exts |-> {".mov"}],
                   [re |-> "\\.wmv$", exts |-> {".wmv"}],
                   [re |-> "\\.flv$", exts |-> {".flv"}],
                   [re |-> "\\.mkv$", exts |-> {".mkv"}]>>,
     keywords |-> <<"video", "movie", "clip", "recording">>,
     content_keywords |-> <<>>] @@
  "audio" :>
    [patterns |-> <<[re |-> "\\.mp3$", exts |-> {".mp3"}],
                   [re |-> "\\.wav$", exts |-> {".wav"}],
                   [re |-> "\\.flac$", exts |-> {".flac"}],
                   [re |-> "\\.aac$", exts |-> {".aac"}],
                   [re |-> "\\.ogg$", exts |-> {".ogg"}]>>,
     keywords |-> <<"audio", "music", "sound", "recording">>,
     content_keywords |-> <<>>] @@
  "code" :>
    [patterns |-> <<[re |-> "\\.py$", exts |-> {".py"}],
                   [re |-> "\\.js$", exts |-> {".js"}],
                   [re |-> "\\.html$", exts |-> {".html"}],
                   [re |-> "\\.css$", exts |-> {".css"}],
                   [re |-> "\\.java$", exts |-> {".java"}],
                   [re |-> "\\.cpp$", exts |-> {".cpp"}],
                   [re |-> "\\.c$", exts |-> {".c"}]>>,
     keywords |-> <<"code", "script", "program", "source">>,
     content_keywords |-> <<"function", "class", "import", "def", "var">>] @@
  "archives" :>
    [patterns |-> <<[re |-> "\\.zip$", exts |-> {".zip"}],
                   [re |-> "\\.rar$", exts |-> {".rar"}],
                   [re |-> "\\.7z$", exts |-> {".7z"}],
                   [re |-> "\\.tar$", exts |-> {".tar"}],
                   [re |-> "\\.gz$", exts |-> {".gz"}]>>,
     keywords |-> <<"archive", "backup", "compressed">>,
     content_keywords |-> <<>>] @@
  "certificates" :>
    [patterns |-> <<[re |-> "certificate", exts |-> {}],
                   [re |-> "cert", exts |-> {}],
                   [re |-> "diploma", exts |-> {}],
                   [re |-> "award", exts |-> {}]>>,
     keywords |-> <<"certificate", "certification", "diploma", "award", "qualification">>,
     content_keywords |-> <<"certified", "completion", "achievement", "qualification">>]

\* the pairs <<k, w>> of a rule text k that is a proper substring of a word w
Substrings ==
  {<<"bill", "billing">>,
   <<"cert", "certificate">>,
   <<"report", "reports">>,
   <<"sum", "summary">>}
\* keyword in text, for a text made of the given words
Contains(words, keyword) ==
  \E w \in words : keyword = w \/ <<keyword, w>> \in Substrings

\* re.search(pattern, file_path_lower)
PatternMatches(pattern, file) ==
  IF pattern.exts # {} THEN file.ext \in pattern.exts
  ELSE Contains(file.dir \cup file.words, pattern.re)

\* category_reasons of one category, in the order they are appended
category_reasons(category, file, content) ==
  LET rules == classification_rules[category]
      p == SelectSeq(rules.patterns, LAMBDA x : PatternMatches(x, file))
      k == SelectSeq(rules.keywords, LAMBDA x : Contains(file.words, x))
      c == IF content = {} THEN <<>>
           ELSE SelectSeq(rules.content_keywords, LAMBDA x : Contains(content, x))
  IN [i \in DOMAIN p |-> [kind |-> "pattern", text |-> p[i].re]]
     \o [i \in DOMAIN k |-> [kind |-> "filename", text |-> k[i]]]
     \o [i \in DOMAIN c |-> [kind |-> "content", text |-> c[i]]]

\* category_score of one category after its three loops
category_score(category, file, content) ==
  LET reasons == category_reasons(category, file, content)
      count(kind) == Len(SelectSeq(reasons, LAMBDA r : r.kind = kind))
  IN AddTimes(AddTimes(AddTimes(Zero, PatternWeight, count("pattern")),
                       KeywordWeight, count("filename")),
              ContentWeight, count("content"))

\* the dict scores: the categories with a score above 0, capped at 1.0
Scores(file, content) ==
  LET scored == {i \in DOMAIN Categories :
                   category_score(Categories[i], file, content) # Zero}
  IN [i \in scored |-> FloatMin(category_score(Categories[i], file, content), ScoreCap)]

\* max(scores.keys(), key = scores[k]): the first key with the highest score
BestCategory(scores) ==
  CHOOSE i \in DOMAIN scores :
    /\ \A j \in DOMAIN scores : ~FloatLess(scores[i], scores[j])
    /\ \A j \in DOMAIN scores : j < i => FloatLess(scores[j], scores[i])

classify_file(file, content) ==
  LET scores == Scores(file, content)
      best == BestCategory(scores)
  IN IF DOMAIN scores = {}
     THEN [category |-> "miscellaneous", confidence |-> FallbackConfidence,
           reasoning |-> {}, scores |-> scores]
     ELSE [category |-> Categories[best], confidence |-> scores[best],
           reasoning |-> {[category |-> Categories[i],
                           reasons |-> category_reasons(Categories[i], file, content)] :
                            i \in DOMAIN scores},
           scores |-> scores]

\* a call of FileClassifier.classify_file
ClassifyFile(file, content) ==
  /\ response = NoResponse
  /\ LET r == classify_file(file, content)
     IN response' = [op |-> "classify", ok |-> TRUE, n |-> Cardinality(DOMAIN r.scores),
                     file |-> file, content |-> content, category |-> r.category,
                     confidence |-> r.confidence, reasoning |-> r.reasoning,
                     scores |-> r.scores]
  /\ UNCHANGED <<storeVars, diskVars, indexVars, org>>

NextClassify ==
  /\ response = NoResponse
  /\ \E file \in ClassifiedFiles, content \in Contents : ClassifyFile(file, content)

SpecClassify == Init /\ [][NextClassify]_vars

----------------------------------------------------------------------------
(* The result of an analysis.  analyze_folder_for_organisation classifies  *)
(* the files of the folder one by one and groups their names by category.  *)
(* A behaviour of SpecAnalyze holds one call on a folder of n files, the   *)
(* first k of which classify_file puts into 'documents' and the others     *)
(* into 'images'.  A folder name is the sequence of the parts that it is   *)
(* formatted from.                                                          *)

\* len(files) > 20: a category of more files than this gets a date suffix
ManyFiles == 20

\* datetime.now().strftime("%Y-%m")
DateSuffixes == {"2026-11"}

folder_names ==
  "invoices" :> "Invoices & Bills" @@
  "reports" :> "Reports & Analysis" @@
  "presentations" :> "Presentations & Slides" @@
  "spreadsheets" :> "Spreadsheets & Data" @@
  "images" :> "Images & Photos" @@
  "videos" :> "Videos & Media" @@
  "audio" :> "Audio & Music" @@
  "code" :> "Code & Scripts" @@
  "archives" :> "Archives & Backups" @@
  "certificates" :> "Certificates & Awards" @@
  "documents" :> "Documents" @@
  "miscellaneous" :> "Other Files"

\* generate_folder_name(category, files), for a category of the table
generate_folder_name(category, file_list, date_suffix) ==
  LET base_name == folder_names[category]
  IN IF Len(file_list) > ManyFiles
     THEN <<base_name, " (", date_suffix, ")">>
     ELSE <<base_name>>

\* get_files_in_folder_recursive of the analysed folder, each file with the
\* category that classify_file returns for it
AnalysedFiles(n, k) ==
  [i \in 1..n |-> [id |-> i, file_name |-> <<"f", i>>,
                   category |-> IF i <= k THEN "documents" ELSE "images"]]

\* the loop over the files and the loop over category_files; the file of id
\* skip is one whose content cannot be read: it is logged and left out
analysis_result(file_list, skip, date_suffix) ==
  LET kept == SelectSeq(file_list, LAMBDA f : f.id # skip)
      classifications ==
        [i \in DOMAIN kept |->
           [file_id |-> kept[i].id, file_name |-> kept[i].file_name,
            classification |-> kept[i].category,
            suggested_folder |->
              generate_folder_name(kept[i].category, <<kept[i].file_name>>,
                                   date_suffix)]]
      names(c) == LET of_c == SelectSeq(kept, LAMBDA f : f.category = c)
                  IN [i \in DOMAIN of_c |-> of_c[i].file_name]
      category_files == [c \in {kept[i].category : i \in DOMAIN kept} |-> names(c)]
      key(c) == generate_folder_name(c, category_files[c], date_suffix)
      suggested_structure ==
        [folder_name \in {key(c) : c \in DOMAIN category_files} |->
           category_files[CHOOSE c \in DOMAIN category_files : key(c) = folder_name]]
  IN IF file_list = <<>>
     THEN [classifications |-> <<>>, suggested_structure |-> <<>>, total_files |-> 0]
     ELSE [classifications |-> classifications,
           suggested_structure |-> suggested_structure,
           total_files |-> Len(file_list)]

\* a call of analyze_folder_for_organisation on a folder with these files
AnalyzeFiles(file_list, skip, date_suffix) ==
  /\ response = NoResponse
  /\ LET r == analysis_result(file_list, skip, date_suffix)
     IN response' = [op |-> "analysis", ok |-> TRUE, n |-> r.total_files,
                     classifications |-> r.classifications,
                     suggested_structure |-> r.suggested_structure]
  /\ UNCHANGED <<storeVars, diskVars, indexVars, org>>

NextAnalyze ==
  /\ response = NoResponse
  /\ \E n \in 0..MaxAnalysed, date_suffix \in DateSuffixes :
       \E k \in 0..n, skip \in 0..n :
         AnalyzeFiles(AnalysedFiles(n, k), skip, date_suffix)

SpecAnalyze == Init /\ [][NextAnalyze]_vars

----------------------------------------------------------------------------
(* Properties of the store *)

\* the folder ids on the parent chain of folder id y, y included, walking at
\* most n links up
RECURSIVE Ancestors(_, _)
Ancestors(y, n) ==
  {y} \cup IF n = 0 THEN {}
           ELSE UNION {Ancestors(g.parent_id, n - 1) :
                         g \in {h \in folders : h.id = y /\ h.parent_id # NULL}}

\* folder id y is folder id x or below it
Under(x, y) == x \in Ancestors(y, Cardinality(folders))

\* C3: no two Folder rows share a path and no two File rows share a
\* file_path, whatever calls were made; add_folder on an existing path
\* replaces the row
C3_UniquePaths ==
  /\ \A f, g \in folders : f.path = g.path => f = g
  /\ \A f, g \in files : f.file_path = g.file_path => f = g

\* add_folder has just replaced the row of an existing path
C3_Witness ==
  /\ response.op = "add_folder" /\ response.ok /\ response.n >= 1
  /\ folders # {}

\* C5: remove_folder of an existing folder deletes exactly the folder, its
\* descendant folders at any depth, their files and the chunks of those
\* files; every other row is unchanged and no row refers to a removed row
C5_RemoveCascade ==
  [][\A id \in Ids(folders) :
       RemoveFolder(id) =>
         LET gone == {f \in folders : Under(id, f.id)}
             fgone == {f \in files : f.folder_id \in Ids(gone)}
         IN /\ folders' = folders \ gone
            /\ files' = files \ fgone
            /\ chunks' = {c \in chunks : c.file_id \notin Ids(fgone)}
            /\ \A f \in folders' : f.parent_id \notin Ids(gone)
            /\ \A f \in files' : f.folder_id \notin Ids(gone)
            /\ \A c \in chunks' : c.file_id \notin Ids(fgone)]_vars

\* remove_folder has just removed a folder with a descendant chain, a file
\* and a chunk, and an ancestor is left
C5_Witness ==
  /\ response.op = "remove_folder" /\ response.n >= 4
  /\ folders # {}

\* C6: get_files_in_folder_recursive(X) is exactly the set of files whose
\* folder is X or has X on its parent chain, on the rows as they are now
C6_FilesUnderFolder ==
  \A x \in 1..seq.folders :
    get_files_in_folder_recursive(DB, x) =
      IF x \in Ids(folders) THEN {f \in files : Under(x, f.folder_id)} ELSE {}

\* a file two levels below a folder is returned for that folder
C6_Witness ==
  \E a, b, c \in folders : \E f \in files :
    /\ b.parent_id = a.id /\ c.parent_id = b.id /\ f.folder_id = c.id
    /\ f \in get_files_in_folder_recursive(DB, a.id)

\* C7: the parent relation is a forest and level is the depth: a folder
\* without parent has level 0, any other has the level of its parent + 1
C7_Forest ==
  \A f \in folders :
    /\ \E g \in folders : g.id \in Ancestors(f.id, Cardinality(folders)) /\ g.parent_id = NULL
    /\ f.parent_id = NULL => f.level = 0
    /\ f.parent_id # NULL =>
         \E g \in folders : g.id = f.parent_id /\ g.id # f.id /\ f.level = g.level + 1

\* add_folder has just replaced a row and a folder below a root exists
C7_Witness ==
  /\ response.op = "add_folder" /\ response.ok
  /\ seq.folders > Cardinality(folders)
  /\ \E f \in folders : f.level >= 1

\* C8: the recursive file count of a folder is its direct count plus the
\* recursive counts of its children, which is the number of files that
\* get_files_in_folder_recursive returns for it
C8_RecursiveCount ==
  \A x \in Ids(folders) :
    get_recursive_file_count(DB, x) = Cardinality(get_files_in_folder_recursive(DB, x))

\* a folder counts 2: a file of its own and a file two levels below
C8_Witness ==
  \E a, b, c \in folders : \E f, g \in files :
    /\ b.parent_id = a.id /\ c.parent_id = b.id
    /\ f.folder_id = a.id /\ g.folder_id = c.id
    /\ get_recursive_file_count(DB, a.id) = 2

\* C9: the file_count that get_folder_by_id and get_folder_hierarchy report
\* (the column folders.file_count) is the current recursive file count
C9_FileCountFresh ==
  \A f \in folders : f.file_count = get_recursive_file_count(DB, f.id)

----------------------------------------------------------------------------
(* Properties of the indexing run *)

\* C1: at most one run_indexing task is between its start and its end
C1_SingleRun ==
  Cardinality({t \in DOMAIN tasks : Active(t)}) <= 1

\* C2: a file path has one File row, every chunk row belongs to a File row
\* and was written by the run that wrote that row, and no (file,
\* chunk_index) pair occurs twice
C2_Reindex ==
  /\ \A f, g \in files : f.file_path = g.file_path => f = g
  /\ \A c \in chunks : \E f \in files : f.id = c.file_id /\ f.run = c.run
  /\ \A c, d \in chunks : (c.file_id = d.file_id /\ c.chunk_index = d.chunk_index) => c = d

\* two runs have written chunks for the same path, and the row and the
\* chunk of the later run are there
C2_Witness ==
  \E p \in Walk(disk_files, RootPath) :
    /\ Len(tasks) >= 2
    /\ p \in tasks[1].written /\ p \in tasks[2].written
    /\ \E f \in files : \E c \in chunks :
         f.file_path = p /\ c.file_id = f.id /\ c.id >= 2

\* C4: every File row names an existing Folder row and every Chunk row an
\* existing File row, also while a run is between two of its files
C4_Owners ==
  /\ \A f \in files : f.folder_id \in Ids(folders)
  /\ \A c \in chunks : c.file_id \in Ids(files)

\* a run lost its folder row between two files and skipped a file
C4_Witness ==
  \E t \in DOMAIN tasks :
    /\ tasks[t].skipped > 0
    /\ tasks[t].folder_id \notin Ids(folders)
    /\ tasks[t].processed_files > 0

----------------------------------------------------------------------------
(* Properties of the organiser *)

CountLog(log, source_path, status) ==
  Cardinality({k \in DOMAIN log :
                 log[k].source_path = source_path /\ log[k].status = status})

\* C10: after execute with confirm, every file of the plan that was there
\* to be moved has exactly one failed action when its move raises and one
\* completed action otherwise, whatever happened to the files before it
C10_BatchContinues ==
  (org.done /\ org.confirm) =>
    \A i \in DOMAIN org.plan :
      LET c == org.plan[i]
          target_path == <<RootPath[1], c.suggested_folder, FileName(c.file_path)>>
      IN (FileExists(org.pre_fs, c.file_path) /\ c.file_path # target_path) =>
           IF c.file_id \in org.fails
           THEN CountLog(org.log, c.file_path, "failed") = 1
           ELSE CountLog(org.log, c.file_path, "completed") = 1

\* C11: when a move of execute raises after moves of the same run have
\* completed, every completed move is undone: the file is back at its
\* source path on the disk and in the store
C11_RollbackRestores ==
  (response.op = "execute_organisation" /\ org.done /\ org.confirm) =>
    \A i, j \in DOMAIN org.log :
      (i < j /\ org.log[i].status = "completed" /\ org.log[j].status = "failed") =>
        /\ FileExists(disk_files, org.log[i].source_path)
        /\ ~FileExists(disk_files, org.log[i].target_path)
        /\ \E f \in files : f.file_path = org.log[i].source_path

\* C12: analyze_folder_for_organisation, with dry_run true or false, leaves
\* every table of the store, the directories and the files on the disk as
\* they were
C12_AnalyzeReadOnly ==
  [][\A id \in 1..MaxFolderId, dry_run \in BOOLEAN :
       AnalyzeFolder(id, dry_run) => UNCHANGED <<storeVars, diskVars>>]_vars

\* an analysis that was not a dry run has classified the files of a folder
\* after some of them were moved
C12_Witness ==
  /\ response.op = "analyze" /\ response.ok /\ response.n >= 2
  /\ org.done /\ org.confirm /\ org.moved_files >= 1

\* C13: execute_organisation with confirm = false makes no directory, moves
\* no file, writes no row of the store, and reports as actions_needed the
\* number of classifications it was given
C13_NoConfirmNoAction ==
  [][(~org.done /\ org'.done /\ ~org'.confirm) =>
       /\ UNCHANGED <<storeVars, diskVars>>
       /\ org'.actions_needed = Len(org'.plan)]_vars

\* an unconfirmed execute has returned for a plan of three files in two
\* folders
C13_Witness ==
  /\ org.done /\ ~org.confirm
  /\ Len(org.plan) = 3 /\ Len(GroupNames(org.plan)) = 2
  /\ org.actions_needed = 3

\* C14: a row of organisation_actions, once written, stays: no step deletes
\* it or changes a field of it other than status
C14_AppendOnlyLog ==
  [][\A a \in actions :
       \E b \in actions' : [b EXCEPT !.status = a.status] = a]_vars

----------------------------------------------------------------------------
(* Properties of the indexing run: the files of a run *)

\* C15: a file that fails is skipped and the run goes on: every file that
\* the walks of a run have listed is indexed, skipped or still to come, a
\* run with files ends only after the last of its folders, and every
\* indexed file is one progress event that names the file and counts one up
C15_FailureSkipped ==
  [][\A t \in DOMAIN tasks :
       LET old == tasks[t]
           new == tasks'[t]
       IN /\ new.processed_files + new.skipped + Cardinality(new.todo) = new.walked
          /\ (new.pc = "done" /\ new.total_files > 0) => new.k > Len(new.folder_paths)
          /\ new.processed_files \in {old.processed_files, old.processed_files + 1}
          /\ new.processed_files = old.processed_files + 1 =>
               /\ indexing_status'.processed_files = new.processed_files
               /\ indexing_status'.current_file \in old.todo \ new.todo
          /\ new.skipped > old.skipped => new.todo = old.todo \ (old.todo \ new.todo)
                                          /\ Cardinality(old.todo \ new.todo) = 1]_vars

\* a run over two folders has ended after it skipped a file and indexed
\* another one
C15_Witness ==
  \E t \in DOMAIN tasks :
    /\ tasks[t].pc = "done" /\ Len(tasks[t].folder_paths) = 2
    /\ tasks[t].skipped >= 1 /\ tasks[t].processed_files >= 1

\* C16: the progress of the status record is between 0 and 100 and
\* processed_files is at most total_files, also when files come and go
\* between the counting pass and the indexing pass
C16_ProgressInRange ==
  /\ indexing_status.progress \in 0..100
  /\ indexing_status.processed_files <= indexing_status.total_files

\* C17: when a write of the store fails part-way, like the INSERT of the
\* k-th action of save_organisation_actions, the store is left without any
\* of the rows written before the failure and the caller gets the error
C17_FailedWriteLeavesNothing ==
  (org.done /\ org.confirm /\ org.raised) =>
    \A a \in actions : \A k \in DOMAIN org.log : a.source_path # org.log[k].source_path

----------------------------------------------------------------------------
(* Properties of search *)

\* C18: the list that a search returns is sorted by similarity, highest
\* first, holds only chunks at or above the threshold, has at most limit
\* entries, which are the highest of all stored chunks at or above the
\* threshold, and is empty when there is no chunk; a stored vector of norm 0
\* has similarity 0
C18_SearchRanked ==
  response.op \in {"search", "search_files"} =>
    LET res == response.results
        cosine == [c \in Ids(chunks) |->
                     IF response.sims[c] = NaN THEN 0 ELSE response.sims[c]]
        qualifying == {c \in Ids(chunks) : cosine[c] >= response.threshold}
        returned == {res[i].chunk : i \in DOMAIN res}
    IN /\ response.ok
       /\ chunks = {} => res = <<>>
       /\ \A i, j \in DOMAIN res : i < j => res[i].similarity_score >= res[j].similarity_score
       /\ \A i \in DOMAIN res : res[i].similarity_score >= response.threshold
       /\ \A i \in DOMAIN res : res[i].similarity_score = cosine[res[i].chunk]
       /\ Cardinality(returned) = Len(res)
       /\ returned \subseteq qualifying
       /\ \A c \in qualifying \ returned : \A d \in returned : cosine[d] >= cosine[c]
       /\ response.limit >= 0 =>
            /\ Len(res) <= response.limit
            /\ Cardinality(qualifying) >= response.limit => Len(res) = response.limit
            /\ Cardinality(qualifying) < response.limit => returned = qualifying

\* C19: for a text no longer than the chunk size the splitter returns
\* exactly one chunk, the text without leading and trailing whitespace
C19_ShortTextOneTrimmedChunk ==
  (response.op = "split_text" /\ Len(response.text) <= response.chunk_size) =>
    response.chunks = <<strip(response.text)>>

\* C20: every chunk that the splitter returns, for any text, is non-empty
\* after trimming whitespace
C20_ChunksNonEmpty ==
  response.op = "split_text" =>
    \A i \in DOMAIN response.chunks : strip(response.chunks[i]) # <<>>

\* C21: the chunks that the splitter returns for sizes 0 <= O < S cover the
\* text: each chunk is the trimmed text of its window, every character of
\* the text that is not whitespace lies in a window, and the windows come in
\* increasing order of their start
C21_ChunksCoverText ==
  response.op = "split_return" =>
    LET text == response.text
        w == response.windows
    IN /\ Len(w) = Len(response.chunks)
       /\ \A i \in DOMAIN w :
            /\ 0 <= w[i][1] /\ w[i][1] <= w[i][2]
            /\ Len(text) > response.chunk_size =>
                 response.chunks[i] = strip(PySlice(text, w[i][1], w[i][2]))
            /\ Len(text) <= response.chunk_size => response.chunks[i] = text
       /\ \A p \in 0..(Len(text) - 1) :
            text[p + 1] \notin Whitespace =>
              \E i \in DOMAIN w : w[i][1] <= p /\ p < w[i][2]
       /\ \A i, j \in DOMAIN w : i < j => w[i][1] < w[j][1]

\* a text of three sentences was split into more than one chunk
C21_Witness ==
  /\ response.op = "split_return"
  /\ Len(response.chunks) >= 2
  /\ response.overlap > 0
  /\ \E p \in DOMAIN response.text : response.text[p] = "."
  /\ \E i \in DOMAIN response.windows :
       response.windows[i][2] - response.windows[i][1] < response.chunk_size

\* C22: every iteration of the loop of the splitter advances start by at
\* least S - O, also when the window is cut back to a sentence end
C22_LoopAdvances ==
  [][(response.op = "split_loop" /\ response'.op \in {"split_loop", "split_return"})
       => response'.start - response.start >= response.chunk_size - response.overlap]_vars

\* C23: the score of every category is min(1.0, 0.4 x matching patterns +
\* 0.3 x keywords in the file name + 0.2 x content keywords in the content),
\* to the rounding of the float sum, the last term only with a content; the
\* confidence is within 0..1; with no category above 0 the result is
\* 'miscellaneous' with confidence 0.1
C23_ClassifierScore ==
  response.op = "classify" =>
    LET file == response.file
        content == response.content
        tenth == <<FallbackConfidence, ContentWeight, KeywordWeight, PatternWeight,
                   [hi |-> 67108864, lo |-> 0], [hi |-> 80530636, lo |-> 214748364],
                   [hi |-> 93952409, lo |-> 161061272],
                   [hi |-> 107374182, lo |-> 107374184],
                   [hi |-> 120795955, lo |-> 53687092], ScoreCap>>
        tenths(i) ==
          LET rules == classification_rules[Categories[i]]
              p == Cardinality({x \in DOMAIN rules.patterns :
                                  PatternMatches(rules.patterns[x], file)})
              k == Cardinality({x \in DOMAIN rules.keywords :
                                  Contains(file.words, rules.keywords[x])})
              c == Cardinality({x \in DOMAIN rules.content_keywords :
                                  Contains(content, rules.content_keywords[x])})
              t == 4 * p + 3 * k + 2 * c
          IN IF t > 10 THEN 10 ELSE t
    IN /\ \A i \in DOMAIN Categories :
            IF tenths(i) = 0 THEN i \notin DOMAIN response.scores
            ELSE /\ i \in DOMAIN response.scores
                 /\ response.scores[i].hi = tenth[tenths(i)].hi
                 /\ response.scores[i].lo - tenth[tenths(i)].lo \in -4..4
       /\ ~FloatLess(response.confidence, Zero)
       /\ ~FloatLess(ScoreCap, response.confidence)
       /\ (\A i \in DOMAIN Categories : tenths(i) = 0) =>
            /\ response.category = "miscellaneous"
            /\ response.confidence = FallbackConfidence
       /\ (\E i \in DOMAIN Categories : tenths(i) > 0) =>
            \E i \in DOMAIN response.scores :
              response.confidence = response.scores[i]

\* a file with two patterns and two keywords of invoices, capped at 1.0, was
\* classified with a content that added to the score of another category
C23_Witness ==
  /\ response.op = "classify"
  /\ response.confidence = ScoreCap
  /\ "billing" \in response.file.words /\ "invoice" \in response.file.words
  /\ \E r \in response.reasoning : \E i \in DOMAIN r.reasons :
       r.reasons[i].kind = "content" /\ r.category # response.category
  /\ \E i \in DOMAIN response.scores : FloatLess(response.scores[i], ScoreCap)

\* C24: the classifier returns the category with the highest capped score,
\* and of several categories with the top score the first of the rule table;
\* invoice_march.pdf without content is classified as invoices and its
\* reasoning names the pattern and the file name keyword
C24_BestCategory ==
  response.op = "classify" =>
    LET file == response.file
        content == response.content
        tenths(i) ==
          LET rules == classification_rules[Categories[i]]
              p == Cardinality({x \in DOMAIN rules.patterns :
                                  PatternMatches(rules.patterns[x], file)})
              k == Cardinality({x \in DOMAIN rules.keywords :
                                  Contains(file.words, rules.keywords[x])})
              c == Cardinality({x \in DOMAIN rules.content_keywords :
                                  Contains(content, rules.content_keywords[x])})
              t == 4 * p + 3 * k + 2 * c
          IN IF t > 10 THEN 10 ELSE t
        top == {i \in DOMAIN Categories :
                  tenths(i) > 0 /\ \A j \in DOMAIN Categories : tenths(j) <= tenths(i)}
    IN /\ top # {} =>
            response.category = Categories[CHOOSE i \in top : \A j \in top : i <= j]
       /\ (file = [dir |-> {}, words |-> {"invoice", "march"}, ext |-> ".pdf"]
             /\ content = {}) =>
            /\ response.category = "invoices"
            /\ \E r \in response.reasoning :
                 /\ r.category = "invoices"
                 /\ \E i \in DOMAIN r.reasons : r.reasons[i] = [kind |-> "pattern", text |-> "invoice"]
                 /\ \E i \in DOMAIN r.reasons : r.reasons[i] = [kind |-> "filename", text |-> "invoice"]

----------------------------------------------------------------------------
(* Properties of the rollback and of the moves of the organiser *)

\* C25: the rollback takes the log in reverse and, for exactly the completed
\* moves, has the file back at its source path on the disk and in the store;
\* the files of failed actions stay where the moves left them, and a move
\* back that raises leaves its file at the target and the others rolled back
C25_RollbackReverse ==
  (org.done /\ org.confirm /\ org.raised) =>
    \A k \in DOMAIN org.log :
      LET a == org.log[k]
          ids == {org.plan[i].file_id : i \in {j \in DOMAIN org.plan :
                                                org.plan[j].file_path = a.source_path}}
      IN /\ (a.status = "completed" /\ a.source_path \notin org.faults.rollback) =>
              /\ FileExists(disk_files, a.source_path)
              /\ \A f \in files : f.id \in ids => f.file_path = a.source_path
         /\ (a.status = "completed" /\ a.source_path \in org.faults.rollback) =>
              \A f \in files : f.id \in ids => f.file_path = a.target_path
         /\ (a.status = "failed"
               /\ ~\E j \in DOMAIN org.log : org.log[j].status = "completed"
                                              /\ org.log[j].source_path = a.source_path) =>
              \A f \in files : f.id \in ids =>
                \E g \in org.moved_rows : g.id = f.id /\ g.file_path = f.file_path

\* C26: a failed action of execute names the file that failed: its source
\* path and classification are those of a classification of the group whose
\* folder is its target, and the file that it names was not moved
C26_FailedActionNamesFile ==
  (org.done /\ org.confirm) =>
    \A k \in DOMAIN org.log :
      LET a == org.log[k]
      IN a.status = "failed" =>
           /\ \E i \in DOMAIN org.plan :
                /\ org.plan[i].file_path = a.source_path
                /\ org.plan[i].classification = a.classification
                /\ Append(RootPath, org.plan[i].suggested_folder) = a.target_path
           /\ \A f \in org.moved_fs : f.inode = a.source_path => f.path = a.source_path

\* C29: after execute with confirm the store and the disk agree and no file
\* is lost: the row of every classified file has a file_path where that very
\* file is on the disk, and every file that was on the disk still is
C29_StoreAndDiskAgree ==
  (org.done /\ org.confirm) =>
    /\ \A i \in DOMAIN org.plan :
         \A f \in files : f.id = org.plan[i].file_id =>
           \E g \in disk_files : g.path = f.file_path /\ g.inode = org.plan[i].file_path
    /\ \A g \in org.pre_fs : \E h \in disk_files : h.inode = g.inode

----------------------------------------------------------------------------
(* Properties of the indexing status *)

\* C27: whenever is_indexing is false no run is under way that still writes
\* current_file and progress: every run is either not started or has ended
C27_IdleMeansNoRun ==
  ~indexing_status.is_indexing =>
    \A t \in DOMAIN tasks : tasks[t].pc \in {"queued", "done"}

----------------------------------------------------------------------------
(* Properties of add_folder on a path that is registered already *)

\* C28: add_folder on a path that has a row deletes that row and inserts a
\* new one under an id that no row has had: the returned id differs from the
\* old one, the old id names no row any more, and the files of the old id,
\* their chunks, its child folders and its organisation actions are gone
C28_ReplaceCascades ==
  [][(response'.op = "add_folder" /\ response'.ok
        /\ seq'.folders = seq.folders + 1) =>
       LET id == seq'.folders
           new == CHOOSE f \in folders' : f.id = id
           old == {f.id : f \in {g \in folders : g.path = new.path}}
           old_files == {f.id : f \in {g \in files : g.folder_id \in old}}
       IN /\ id \in Ids(folders') /\ id \notin Ids(folders) /\ id \notin old
          /\ id > seq.folders
          /\ \A f \in folders' : f.path = new.path => f.id = id
          /\ Ids(folders') \cap old = {}
          /\ \A f \in folders' : f.parent_id \notin old
          /\ \A f \in files' : f.folder_id \notin old
          /\ \A c \in chunks' : c.file_id \notin old_files
          /\ \A a \in actions' : a.folder_id \notin old]_vars

\* the organiser has moved files of folder 1 into a folder it created, the
\* log is saved, and folder A is then registered again: the new row is the
\* only row of the store
C28_Witness ==
  /\ response.op = "add_folder" /\ response.ok
  /\ org.done /\ org.confirm /\ org.moved_files >= 1 /\ ~org.raised
  /\ seq.folders = 3 /\ seq.actions >= 1 /\ seq.chunks = 1
  /\ \E f \in folders : f.id = 3 /\ f.path = RootPath /\ folders = {f}
  /\ files = {} /\ chunks = {} /\ actions = {}

----------------------------------------------------------------------------
(* Properties of the result of an analysis *)

\* C30: the result of an analysis is consistent with itself: the
\* suggested_folder of every classification is a key of suggested_structure
\* and the file_name of the classification is in the list under that key,
\* also when a category holds more than 20 files
C30_AnalysisSelfConsistent ==
  response.op = "analysis" =>
    \A i \in DOMAIN response.classifications :
      LET c == response.classifications[i]
          structure == response.suggested_structure
      IN /\ c.suggested_folder \in DOMAIN structure
         /\ \E j \in DOMAIN structure[c.suggested_folder] :
              structure[c.suggested_folder][j] = c.file_name

====
